---- MODULE Spec2Model ----
(***************************************************************************)
(* The Loki chunk decoder of chunks-inspect: parseLokiChunk, parseLokiBlock,*)
(* readVarint, readUvarint and getCompression (src/unnamed/part_001, the    *)
(* checksum-aware variant; src/unnamed/part_000 is the same decoder without *)
(* the checksum fields).                                                    *)
(*                                                                          *)
(* Representation.  A byte is a number 0..255.  A byte slice is a sequence  *)
(* of bytes; a nil slice and an empty slice are both << >> (the code only   *)
(* ever takes len() of them or ranges over them).  A uint32, uint64 or      *)
(* int64 is the set of the positions of its 1 bits (bit 0 the least         *)
(* significant; an int64 in two's complement), so that all 64 bits are kept *)
(* and shifts, complements and wrap-around are exactly the machine's.       *)
(* Go's int is taken to be 64 bits wide.                                    *)
(***************************************************************************)
EXTENDS Integers, Sequences, FiniteSets, TLC

(***************************************************************************)
(* Machine words as sets of bit positions.                                 *)
(***************************************************************************)
Pow2(k) == 2 ^ k

\* The bits of a natural number below 2^30.
Bits(n) == {j \in 0..29 : (n \div Pow2(j)) % 2 = 1}

\* A word small enough to be used as a number of the model.
IsSmall(w) == w \subseteq 0..29

RECURSIVE Val(_)
Val(w) == IF w = {} THEN 0
          ELSE LET j == CHOOSE k \in w : TRUE IN Pow2(j) + Val(w \ {j})

ByteBits(b) == {j \in 0..7 : (b \div Pow2(j)) % 2 = 1}

\* w << s and w >> s in a register of the given width.
Shl(w, s, width) == {j + s : j \in w} \cap (0..(width - 1))
Shr(w, s) == {j - s : j \in {k \in w : k >= s}}
Not(w, width) == (0..(width - 1)) \ w
Xor(a, b) == (a \ b) \cup (b \ a)

\* a + b modulo 2^64 (the uint64 addition of dataOffset+dataLength).
RECURSIVE AddFrom(_, _, _, _)
AddFrom(a, b, i, carry) ==
  IF i = 64 THEN {}
  ELSE LET n == (IF i \in a THEN 1 ELSE 0) + (IF i \in b THEN 1 ELSE 0) + carry
       IN (IF n % 2 = 1 THEN {i} ELSE {}) \cup AddFrom(a, b, i + 1, n \div 2)
Add64(a, b) == AddFrom(a, b, 0, 0)

\* int(w) < 0 for a uint64 w converted to int.
IsNegative(w) == 63 \in w

\* n < int(w), n a small non-negative number (ix < int(blocks),
\* len(decompressed) < int(lineLength)).
LessThanInt(n, w) ==
  IF IsNegative(w) THEN FALSE
  ELSE IF ~IsSmall(w) THEN TRUE
  ELSE n < Val(w)

\* w <= n as unsigned numbers, n a small non-negative number.
ULeq(w, n) == IsSmall(w) /\ Val(w) <= n

\* a <= b as unsigned 64-bit numbers.
ULeqWord(a, b) ==
  \/ a = b
  \/ LET d == Xor(a, b)
         top == CHOOSE j \in d : \A k \in d : k <= j
     IN top \in b

\* s[lo:hi], lo and hi counted from 0.
Slice(s, lo, hi) == SubSeq(s, lo + 1, hi)

(***************************************************************************)
(* encoding/binary: BigEndian.Uint32, BigEndian.Uint64, Uvarint, Varint.   *)
(***************************************************************************)
RECURSIVE BigEndian(_)
BigEndian(b) ==
  IF Len(b) = 0 THEN {}
  ELSE {j + 8 * (Len(b) - 1) : j \in ByteBits(b[1])} \cup BigEndian(Tail(b))

MaxVarintLen64 == 10

\* binary.Uvarint: [val, n]; n > 0 bytes read, n = 0 buffer too small,
\* n < 0 overflow.  i counts the bytes already consumed.
RECURSIVE UvarintFrom(_, _, _)
UvarintFrom(buf, i, x) ==
  IF i >= Len(buf) THEN [val |-> {}, n |-> 0]
  ELSE LET b == buf[i + 1] IN
    IF i = MaxVarintLen64 THEN [val |-> {}, n |-> -(i + 1)]
    ELSE IF b < 128 THEN
      IF i = MaxVarintLen64 - 1 /\ b > 1 THEN [val |-> {}, n |-> -(i + 1)]
      ELSE [val |-> x \cup Shl(ByteBits(b), 7 * i, 64), n |-> i + 1]
    ELSE UvarintFrom(buf, i + 1, x \cup Shl(ByteBits(b % 128), 7 * i, 64))

Uvarint(buf) == UvarintFrom(buf, 0, {})

\* binary.Varint: zig-zag over Uvarint.
\* x := int64(ux >> 1); if ux&1 != 0 { x = ^x }
ZigZag(u) ==
  [val |-> IF 0 \in u.val THEN Not(Shr(u.val, 1), 64) ELSE Shr(u.val, 1), n |-> u.n]

Varint(buf) == ZigZag(Uvarint(buf))

(***************************************************************************)
(* hash/crc32 with the Castagnoli polynomial (castagnoliTable).            *)
(***************************************************************************)
\* crc32.Castagnoli = 0x82f63b78
Castagnoli == {31, 25, 23, 22, 21, 20, 18, 17, 13, 12, 11, 9, 8, 6, 5, 4, 3}

RECURSIVE TableEntry(_, _)
TableEntry(crc, k) ==
  IF k = 0 THEN crc
  ELSE TableEntry(IF 0 \in crc THEN Xor(Shr(crc, 1), Castagnoli) ELSE Shr(crc, 1), k - 1)

castagnoliTable == [i \in 0..255 |-> TableEntry(ByteBits(i), 8)]

RECURSIVE CrcUpdate(_, _)
CrcUpdate(crc, p) ==
  IF Len(p) = 0 THEN crc
  ELSE LET next == Xor(castagnoliTable[Val(Xor(crc \cap (0..7), ByteBits(p[1])))],
                       Shr(crc, 8))
       IN CASE next \subseteq 0..31 -> CrcUpdate(next, Tail(p))

Checksum(p) == Not(CrcUpdate(Not({}, 32), p), 32)

(***************************************************************************)
(* Errors.  error values are modelled by the message's fixed part; Nil is  *)
(* the nil error.                                                          *)
(***************************************************************************)
Nil == "nil"
ErrReadFull == "failed to read rawData for Loki chunk into memory"
ErrMagic == "invalid magic number"
ErrCompression == "failed to read compression"
ErrUnknownEncoding == "unknown encoding"
ErrUnknownFormat == "unknown format"
ErrBlockCount == "failed to read number of blocks"
ErrVarint == "varint"
ErrLineData == "not enough line data"
ErrDecompress == "decompress"

(***************************************************************************)
(* The codec table and getCompression.                                     *)
(***************************************************************************)
encNone == [code |-> 0, name |-> "none"]
encGZIP == [code |-> 1, name |-> "gzip"]
encDumb == [code |-> 2, name |-> "dumb"]
encLZ4 == [code |-> 3, name |-> "lz4"]
encSnappy == [code |-> 4, name |-> "snappy"]
Encodings == <<encNone, encGZIP, encDumb, encLZ4, encSnappy>>

\* The zero Encoding, before getCompression has run.
encUnset == [code |-> 0, name |-> ""]

\* for _, e := range Encodings { if e.code == int(code) { return e, nil } }
RECURSIVE LookupFrom(_, _)
LookupFrom(i, code) ==
  IF i > Len(Encodings) THEN [enc |-> encNone, err |-> ErrUnknownEncoding]
  ELSE IF Encodings[i].code = code THEN [enc |-> Encodings[i], err |-> Nil]
  ELSE LookupFrom(i + 1, code)

\* getCompression looking the code up under format 1 as well.
getCompressionAlwaysLookup(format, code) ==
  IF format = 1 \/ format = 2 THEN LookupFrom(1, code)
  ELSE [enc |-> encNone, err |-> ErrUnknownFormat]

getCompression(format, code) ==
  IF format = 1 THEN [enc |-> encGZIP, err |-> Nil]
  ELSE IF format = 2 THEN LookupFrom(1, code)
  ELSE [enc |-> encNone, err |-> ErrUnknownFormat]

(***************************************************************************)
(* readVarint, readUvarint: decode only if no prior error.                 *)
(***************************************************************************)
\* if n <= 0 { return 0, nil, fmt.Errorf("varint: %d", n) }; return val, buf[n:], nil
Consumed(r, buf) ==
  IF r.n <= 0 THEN [val |-> {}, buf |-> << >>, err |-> ErrVarint]
  ELSE [val |-> r.val, buf |-> Slice(buf, r.n, Len(buf)), err |-> Nil]

\* readUvarint decoding even after a previous error.
readUvarintEager(prevErr, buf) == Consumed(Uvarint(buf), buf)

readVarint(prevErr, buf) ==
  IF prevErr # Nil THEN [val |-> {}, buf |-> buf, err |-> prevErr]
  ELSE Consumed(Varint(buf), buf)

readUvarint(prevErr, buf) ==
  IF prevErr # Nil THEN [val |-> {}, buf |-> buf, err |-> prevErr]
  ELSE Consumed(Uvarint(buf), buf)

(***************************************************************************)
(* parseLokiBlock.  The readers of encNone and encDumb hand the payload    *)
(* through.  gzip, lz4 and snappy are libraries outside the repository:    *)
(* what readerFn and ioutil.ReadAll make of a payload is the library's     *)
(* answer lib = [err, out], an input of the run.  The SHA-256 digests are  *)
(* informational and are left out.                                         *)
(***************************************************************************)
IsIdentity(compression) == compression.name \in {"none", "dumb"}

Decompress(compression, data, lib) ==
  IF IsIdentity(compression) THEN [err |-> Nil, out |-> data] ELSE lib

\* The loop `for len(decompressed) > 0`, one record (timestamp t, line
\* length l, line) a turn.  panic: the slice expression
\* decompressed[0:lineLength] is out of range.
RECURSIVE EntryLoop(_, _)
\* EntryLine refusing a line that fills the rest of the buffer.
EntryLineExactFitRefused(t, l, entries) ==
  IF l.err # Nil
  THEN [entries |-> << >>, err |-> l.err, panic |-> FALSE]
  ELSE IF LessThanInt(Len(l.buf) - 1, l.val)
  THEN [entries |-> << >>, err |-> ErrLineData, panic |-> FALSE]
  ELSE IF ~ULeq(l.val, Len(l.buf))
  THEN [entries |-> << >>, err |-> Nil, panic |-> TRUE]
  ELSE EntryLoop(Slice(l.buf, Val(l.val), Len(l.buf)),
                 Append(entries, [timestamp |-> t.val,
                                  line |-> Slice(l.buf, 0, Val(l.val))]))

EntryLine(t, l, entries) ==
  IF l.err # Nil
  THEN [entries |-> << >>, err |-> l.err, panic |-> FALSE]
  ELSE IF LessThanInt(Len(l.buf), l.val)
  THEN [entries |-> << >>, err |-> ErrLineData, panic |-> FALSE]
  ELSE IF ~ULeq(l.val, Len(l.buf))
  THEN [entries |-> << >>, err |-> Nil, panic |-> TRUE]
  ELSE EntryLoop(Slice(l.buf, Val(l.val), Len(l.buf)),
                 Append(entries, [timestamp |-> t.val,
                                  line |-> Slice(l.buf, 0, Val(l.val))]))

EntryLength(t, entries) == EntryLine(t, readUvarint(t.err, t.buf), entries)

EntryLoop(decompressed, entries) ==
  IF Len(decompressed) = 0
  THEN [entries |-> entries, err |-> Nil, panic |-> FALSE]
  ELSE EntryLength(readVarint(Nil, decompressed), entries)

\* return decompressedLen, entries, digest[:], nil, or 0, nil, digest[:], err
BlockResult(r, decompressedLen) ==
  [uncompressedLength |-> IF r.err = Nil /\ ~r.panic THEN decompressedLen ELSE 0,
   entries |-> r.entries, err |-> r.err, panic |-> r.panic]

Decompressed(d) ==
  IF d.err # Nil
  THEN [uncompressedLength |-> 0, entries |-> << >>, err |-> d.err, panic |-> FALSE]
  ELSE BlockResult(EntryLoop(d.out, << >>), Len(d.out))

parseLokiBlock(compression, data, lib) == Decompressed(Decompress(compression, data, lib))

(***************************************************************************)
(* parseLokiChunk as a machine.  input is what the run is given: the bytes *)
(* the reader r holds (stream), chunkHeader.DataLength (dataLength) and    *)
(* the decompression libraries' answer for each block (lib).  The other    *)
(* variables are the function's locals; pc is its position, ret what it    *)
(* returned.  A pointer is a sequence: << >> is nil, <<c>> points at c.    *)
(* blockErrs is a history variable: the error parseLokiBlock returned for  *)
(* each block appended to lokiChunk.blocks (LokiBlock has no such field).  *)
(***************************************************************************)
VARIABLES input, pc, data, compression, err, metadata, metaChecksum,
          computedMetaChecksum, blocks, ix, block, lokiChunk, blockErrs, ret

vars == <<input, pc, data, compression, err, metadata, metaChecksum,
          computedMetaChecksum, blocks, ix, block, lokiChunk, blockErrs, ret>>

\* 0x012EE56A
MagicNumber == 19850602

\* LokiBlock{}
ZeroBlock ==
  [numEntries |-> {}, minT |-> {}, maxT |-> {}, dataOffset |-> {}, dataLength |-> {},
   rawData |-> << >>, entries |-> << >>, uncompressedLength |-> 0,
   storedChecksum |-> {}, computedChecksum |-> {}]

NotReturned == [kind |-> "none", chunk |-> << >>, err |-> Nil]

\* The locals at the entry of parseLokiChunk(chunkHeader, r).
Start(in) ==
  [input |-> in, pc |-> "read", data |-> << >>, compression |-> encUnset, err |-> Nil,
   metadata |-> << >>, metaChecksum |-> {}, computedMetaChecksum |-> {},
   blocks |-> {}, ix |-> 0, block |-> ZeroBlock, lokiChunk |-> << >>,
   blockErrs |-> << >>, ret |-> NotReturned]

\* return nil, e
ReturnErr(s, e) ==
  [s EXCEPT !.pc = "done", !.ret = [kind |-> "error", chunk |-> << >>, err |-> e]]

\* return lokiChunk, nil
ReturnChunk(s) ==
  [s EXCEPT !.pc = "done", !.ret = [kind |-> "ok", chunk |-> s.lokiChunk, err |-> Nil]]

\* A run-time panic (index or slice bounds out of range): nothing is returned.
Panic(s) ==
  [s EXCEPT !.pc = "done", !.ret = [kind |-> "panic", chunk |-> << >>, err |-> Nil]]

\* data := make([]byte, DataLength); io.ReadFull(r, data)
StepReadBody(s) ==
  IF Len(s.input.stream) < s.input.dataLength
  THEN ReturnErr(s, ErrReadFull)
  ELSE [s EXCEPT !.pc = "magic",
                 !.data = SubSeq(s.input.stream, 1, s.input.dataLength)]

\* StepCheckMagic comparing the low three bytes only.
StepCheckMagicLow24(s) ==
  IF Len(s.data) < 4 THEN Panic(s)
  ELSE IF BigEndian(Slice(s.data, 1, 4)) # Bits(MagicNumber) \cap (0..23)
  THEN ReturnErr(s, ErrMagic)
  ELSE [s EXCEPT !.pc = "compression"]

\* binary.BigEndian.Uint32(data[0:4]) != 0x012EE56A
StepCheckMagic(s) ==
  IF Len(s.data) < 4 THEN Panic(s)
  ELSE IF BigEndian(Slice(s.data, 0, 4)) # Bits(MagicNumber) THEN ReturnErr(s, ErrMagic)
  ELSE [s EXCEPT !.pc = "compression"]

\* compression, err := getCompression(data[4], data[5])
GotCompression(s, c) ==
  IF c.err # Nil
  THEN ReturnErr([s EXCEPT !.compression = c.enc, !.err = c.err], ErrCompression)
  ELSE [s EXCEPT !.pc = "trailer", !.compression = c.enc, !.err = c.err]

StepGetCompression(s) ==
  IF Len(s.data) < 6 THEN Panic(s)
  ELSE GotCompression(s, getCompression(s.data[5], s.data[6]))

\* Trailer returning an error when the metadata checksum does not match.
TrailerStrict(s, n, metasOffset) ==
  IF n - 12 < 0 \/ ~ULeq(metasOffset, n - 12) THEN Panic(s)
  ELSE IF BigEndian(Slice(s.data, n - 12, n - 8))
          # Checksum(Slice(s.data, Val(metasOffset), n - 12))
  THEN ReturnErr(s, ErrBlockCount)
  ELSE [s EXCEPT !.pc = "count",
                 !.metadata = Slice(s.data, Val(metasOffset), n - 12),
                 !.metaChecksum = BigEndian(Slice(s.data, n - 12, n - 8)),
                 !.computedMetaChecksum =
                    Checksum(Slice(s.data, Val(metasOffset), n - 12))]

\* Trailer taking the stored checksum for the computed one.
TrailerTrustsStored(s, n, metasOffset) ==
  IF n - 12 < 0 \/ ~ULeq(metasOffset, n - 12) THEN Panic(s)
  ELSE [s EXCEPT !.pc = "count",
                 !.metadata = Slice(s.data, Val(metasOffset), n - 12),
                 !.metaChecksum = BigEndian(Slice(s.data, n - 12, n - 8)),
                 !.computedMetaChecksum = BigEndian(Slice(s.data, n - 12, n - 8))]

\* metasOffset, metadata, metaChecksum, computedMetaChecksum
Trailer(s, n, metasOffset) ==
  IF n - 12 < 0 \/ ~ULeq(metasOffset, n - 12) THEN Panic(s)
  ELSE [s EXCEPT !.pc = "count",
                 !.metadata = Slice(s.data, Val(metasOffset), n - 12),
                 !.metaChecksum = BigEndian(Slice(s.data, n - 12, n - 8)),
                 !.computedMetaChecksum =
                    Checksum(Slice(s.data, Val(metasOffset), n - 12))]

StepReadTrailer(s) ==
  IF Len(s.data) < 8 THEN Panic(s)
  ELSE Trailer(s, Len(s.data), BigEndian(Slice(s.data, Len(s.data) - 8, Len(s.data))))

\* blocks, n := binary.Uvarint(metadata); lokiChunk := &LokiChunk{...}
BlockCount(s, r) ==
  IF r.n <= 0 THEN ReturnErr(s, ErrBlockCount)
  ELSE [s EXCEPT !.pc = "loop", !.blocks = r.val,
                 !.metadata = Slice(s.metadata, r.n, Len(s.metadata)),
                 !.lokiChunk = <<[encoding |-> s.compression,
                                  blocks |-> << >>,
                                  metadataChecksum |-> s.metaChecksum,
                                  computedMetadataChecksum |-> s.computedMetaChecksum]>>]

StepReadBlockCount(s) == BlockCount(s, Uvarint(s.metadata))

\* for ix := 0; ix < int(blocks); ix++ { block := LokiBlock{} ... } return lokiChunk, nil
StepLoop(s) ==
  IF LessThanInt(s.ix, s.blocks)
  THEN [s EXCEPT !.pc = "numEntries", !.block = ZeroBlock]
  ELSE ReturnChunk(s)

\* block.<field>, metadata, err = r
Field(s, field, next, r) ==
  [s EXCEPT !.pc = next, !.block[field] = r.val, !.metadata = r.buf, !.err = r.err]

\* block.numEntries, metadata, err = readUvarint(err, metadata)
StepNumEntries(s) == Field(s, "numEntries", "minT", readUvarint(s.err, s.metadata))

\* block.minT, metadata, err = readVarint(err, metadata)
StepMinT(s) == Field(s, "minT", "maxT", readVarint(s.err, s.metadata))

\* block.maxT, metadata, err = readVarint(err, metadata)
StepMaxT(s) == Field(s, "maxT", "dataOffset", readVarint(s.err, s.metadata))

\* block.dataOffset, metadata, err = readUvarint(err, metadata)
StepDataOffset(s) == Field(s, "dataOffset", "dataLength", readUvarint(s.err, s.metadata))

\* block.dataLength, metadata, err = readUvarint(err, metadata)
StepDataLength(s) == Field(s, "dataLength", "checkErr", readUvarint(s.err, s.metadata))

\* if err != nil { return nil, err }
StepCheckErr(s) ==
  IF s.err # Nil THEN ReturnErr(s, s.err) ELSE [s EXCEPT !.pc = "slice"]

\* block.rawData, block.storedChecksum, block.computedChecksum
SliceAt(s, n, lo, hi, hi4) ==
  IF ~(ULeq(hi, n) /\ ULeqWord(lo, hi)) THEN Panic(s)
  ELSE IF ~(ULeq(hi4, n) /\ ULeqWord(hi, hi4))
  THEN Panic([s EXCEPT !.block.rawData = Slice(s.data, Val(lo), Val(hi))])
  ELSE [s EXCEPT !.pc = "parse",
                 !.block.rawData = Slice(s.data, Val(lo), Val(hi)),
                 !.block.storedChecksum = BigEndian(Slice(s.data, Val(hi), Val(hi4))),
                 !.block.computedChecksum = Checksum(Slice(s.data, Val(lo), Val(hi)))]

StepSlice(s) ==
  SliceAt(s, Len(s.data), s.block.dataOffset,
          Add64(s.block.dataOffset, s.block.dataLength),
          Add64(Add64(s.block.dataOffset, s.block.dataLength), Bits(4)))

\* The libraries' answer for the block being decoded.
LibAnswer(s) ==
  IF s.ix + 1 <= Len(s.input.lib) THEN s.input.lib[s.ix + 1]
  ELSE [err |-> ErrDecompress, out |-> << >>]

\* block.uncompressedLength, block.entries, _, err = parseLokiBlock(...);
\* lokiChunk.blocks = append(lokiChunk.blocks, block); ix++
Parsed(s, r) ==
  IF r.panic THEN Panic(s)
  ELSE [s EXCEPT !.pc = "loop", !.err = r.err, !.ix = s.ix + 1,
                 !.block.uncompressedLength = r.uncompressedLength,
                 !.block.entries = r.entries,
                 !.lokiChunk[1].blocks =
                    Append(@, [s.block EXCEPT !.uncompressedLength = r.uncompressedLength,
                                              !.entries = r.entries]),
                 !.blockErrs = Append(@, r.err)]

StepParseBlock(s) == Parsed(s, parseLokiBlock(s.compression, s.block.rawData, LibAnswer(s)))

\* One step of parseLokiChunk from the locals s.
Step(s) ==
  CASE s.pc = "read" -> StepReadBody(s)
    [] s.pc = "magic" -> StepCheckMagic(s)
    [] s.pc = "compression" -> StepGetCompression(s)
    [] s.pc = "trailer" -> StepReadTrailer(s)
    [] s.pc = "count" -> StepReadBlockCount(s)
    [] s.pc = "loop" -> StepLoop(s)
    [] s.pc = "numEntries" -> StepNumEntries(s)
    [] s.pc = "minT" -> StepMinT(s)
    [] s.pc = "maxT" -> StepMaxT(s)
    [] s.pc = "dataOffset" -> StepDataOffset(s)
    [] s.pc = "dataLength" -> StepDataLength(s)
    [] s.pc = "checkErr" -> StepCheckErr(s)
    [] s.pc = "slice" -> StepSlice(s)
    [] s.pc = "parse" -> StepParseBlock(s)
    [] OTHER -> s

\* parseLokiChunk run to its end from the locals s.
RECURSIVE Run(_)
Run(s) == IF s.pc = "done" THEN s ELSE Run(Step(s))

\* parseLokiChunk(chunkHeader, r) on the input in: what it returns.
parseLokiChunk(in) == Run(Start(in)).ret

Cur ==
  [input |-> input, pc |-> pc, data |-> data, compression |-> compression, err |-> err,
   metadata |-> metadata, metaChecksum |-> metaChecksum,
   computedMetaChecksum |-> computedMetaChecksum, blocks |-> blocks, ix |-> ix,
   block |-> block, lokiChunk |-> lokiChunk, blockErrs |-> blockErrs, ret |-> ret]

Apply(s) ==
  /\ input' = s.input
  /\ pc' = s.pc
  /\ data' = s.data
  /\ compression' = s.compression
  /\ err' = s.err
  /\ metadata' = s.metadata
  /\ metaChecksum' = s.metaChecksum
  /\ computedMetaChecksum' = s.computedMetaChecksum
  /\ blocks' = s.blocks
  /\ ix' = s.ix
  /\ block' = s.block
  /\ lokiChunk' = s.lokiChunk
  /\ blockErrs' = s.blockErrs
  /\ ret' = s.ret

Apply0(s) ==
  /\ input = s.input
  /\ pc = s.pc
  /\ data = s.data
  /\ compression = s.compression
  /\ err = s.err
  /\ metadata = s.metadata
  /\ metaChecksum = s.metaChecksum
  /\ computedMetaChecksum = s.computedMetaChecksum
  /\ blocks = s.blocks
  /\ ix = s.ix
  /\ block = s.block
  /\ lokiChunk = s.lokiChunk
  /\ blockErrs = s.blockErrs
  /\ ret = s.ret

ReadBody == pc = "read" /\ Apply(StepReadBody(Cur))
CheckMagic == pc = "magic" /\ Apply(StepCheckMagic(Cur))
GetCompression == pc = "compression" /\ Apply(StepGetCompression(Cur))
ReadTrailer == pc = "trailer" /\ Apply(StepReadTrailer(Cur))
ReadBlockCount == pc = "count" /\ Apply(StepReadBlockCount(Cur))
Loop == pc = "loop" /\ Apply(StepLoop(Cur))
ReadNumEntries == pc = "numEntries" /\ Apply(StepNumEntries(Cur))
ReadMinT == pc = "minT" /\ Apply(StepMinT(Cur))
ReadMaxT == pc = "maxT" /\ Apply(StepMaxT(Cur))
ReadDataOffset == pc = "dataOffset" /\ Apply(StepDataOffset(Cur))
ReadDataLength == pc = "dataLength" /\ Apply(StepDataLength(Cur))
CheckErr == pc = "checkErr" /\ Apply(StepCheckErr(Cur))
SliceBlock == pc = "slice" /\ Apply(StepSlice(Cur))
ParseBlock == pc = "parse" /\ Apply(StepParseBlock(Cur))

Next ==
  \/ ReadBody
  \/ CheckMagic
  \/ GetCompression
  \/ ReadTrailer
  \/ ReadBlockCount
  \/ Loop
  \/ ReadNumEntries
  \/ ReadMinT
  \/ ReadMaxT
  \/ ReadDataOffset
  \/ ReadDataLength
  \/ CheckErr
  \/ SliceBlock
  \/ ParseBlock

(***************************************************************************)
(* The inputs of the runs.  The repository holds no encoder: the chunks    *)
(* are laid out here as section 6 of the specification gives the format    *)
(* (magic, format, code, payloads each followed by its CRC32, directory,   *)
(* CRC32 of the directory, offset of the directory), then damaged.         *)
(***************************************************************************)
MaxBlocks == 2

RECURSIVE Concat(_)
Concat(ss) == IF Len(ss) = 0 THEN << >> ELSE Head(ss) \o Concat(Tail(ss))

\* The int64 of a small number of the model.
I64(n) == IF n >= 0 THEN Bits(n) ELSE Not(Bits(-n - 1), 64)

RECURSIVE PutUvarint(_)
PutUvarint(w) ==
  IF w \subseteq 0..6 THEN <<Val(w)>>
  ELSE <<Val(w \cap (0..6)) + 128>> \o PutUvarint(Shr(w, 7))

PutVarint(x) ==
  PutUvarint(IF 63 \in x THEN Not(Shl(x, 1, 64), 64) ELSE Shl(x, 1, 64))

PutBigEndian(w, nbytes) ==
  [i \in 1..nbytes |-> Val(Shr(w, 8 * (nbytes - i)) \cap (0..7))]

EncodeEntry(e) == PutVarint(e.timestamp) \o PutUvarint(Bits(Len(e.line))) \o e.line

RECURSIVE EncodeEntries(_)
EncodeEntries(es) ==
  IF Len(es) = 0 THEN << >> ELSE EncodeEntry(Head(es)) \o EncodeEntries(Tail(es))

MagicBytes == <<1, 46, 229, 106>>

EntryA == [timestamp |-> I64(1000), line |-> <<97>>]
EntryB == [timestamp |-> I64(2000), line |-> <<98, 98>>]
EntryC == [timestamp |-> I64(-1), line |-> << >>]
EntryD == [timestamp |-> {63}, line |-> <<32, 99, 32>>]
EntryE == [timestamp |-> 0..62, line |-> <<10>>]

EntryLists == {<< >>, <<EntryA, EntryB>>, <<EntryC, EntryD, EntryE>>}

\* Varints of lengths no buffer holds: 2^63, 2^64-1, 2^63-1, 2^31.
Two63 == <<128, 128, 128, 128, 128, 128, 128, 128, 128, 1>>
MaxU64 == <<255, 255, 255, 255, 255, 255, 255, 255, 255, 1>>
MaxI64 == <<255, 255, 255, 255, 255, 255, 255, 255, 127>>
Two31 == <<128, 128, 128, 128, 8>>
\* Malformed varints: more than 64 bits, and unterminated.
Overflow == <<255, 255, 255, 255, 255, 255, 255, 255, 255, 2>>
TooLong == <<128, 128, 128, 128, 128, 128, 128, 128, 128, 128, 1>>
Unterminated == <<129>>

DropLast(p) == SubSeq(p, 1, Len(p) - 1)

\* Payloads: [entries, payload, intact]; intact ones are the concatenation
\* of their entries' encodings.
IntactPayloads ==
  {[entries |-> es, payload |-> EncodeEntries(es), intact |-> TRUE] : es \in EntryLists}

DamagedPayloads ==
  {[entries |-> <<EntryA, EntryB>>, payload |-> p, intact |-> FALSE] :
     p \in {DropLast(EncodeEntries(<<EntryA, EntryB>>)),
            EncodeEntry(EntryA) \o PutVarint(I64(5)) \o Two63 \o <<1, 2>>,
            EncodeEntry(EntryA) \o PutVarint(I64(5)) \o MaxU64,
            EncodeEntry(EntryA) \o PutVarint(I64(5)) \o Two31 \o <<1>>,
            EncodeEntry(EntryA) \o Unterminated,
            EncodeEntry(EntryA) \o PutVarint(I64(5)) \o Overflow \o <<1>>,
            EncodeEntry(EntryA) \o PutVarint(I64(5)) \o <<3, 1, 2>>}}

Payloads == IntactPayloads \cup DamagedPayloads

\* A block to lay out: its payload, whether the stored CRC32 is the payload's,
\* the declared entry count and time bounds, and the descriptor's offset and
\* length when they are not the payload's own (place = <<offset, length>>).
BlockOf(p, sumOK, declared) ==
  [entries |-> p.entries, payload |-> p.payload, intact |-> p.intact, sumOK |-> sumOK,
   numEntries |-> declared,
   minT |-> IF p.entries = << >> THEN {} ELSE p.entries[1].timestamp,
   maxT |-> IF p.entries = << >> THEN {} ELSE p.entries[Len(p.entries)].timestamp,
   place |-> << >>]

PlainBlock(p) == BlockOf(p, TRUE, Bits(Len(p.entries)))

BlockA == PlainBlock([entries |-> <<EntryA, EntryB>>,
                      payload |-> EncodeEntries(<<EntryA, EntryB>>), intact |-> TRUE])

StoredSum(p, ok) == PutBigEndian(IF ok THEN Checksum(p) ELSE Xor(Checksum(p), {0}), 4)

RECURSIVE Area(_)
Area(blks) ==
  IF Len(blks) = 0 THEN << >>
  ELSE Head(blks).payload \o StoredSum(Head(blks).payload, Head(blks).sumOK)
       \o Area(Tail(blks))

RECURSIVE Directory(_, _)
Directory(blks, off) ==
  IF Len(blks) = 0 THEN << >>
  ELSE LET b == Head(blks)
           at == IF b.place = << >> THEN Bits(off) ELSE b.place[1]
           ln == IF b.place = << >> THEN Bits(Len(b.payload)) ELSE b.place[2]
       IN PutUvarint(b.numEntries) \o PutVarint(b.minT) \o PutVarint(b.maxT)
          \o PutUvarint(at) \o PutUvarint(ln)
          \o Directory(Tail(blks), off + Len(b.payload) + 4)

\* gen = [magic, format, code, blks, count, metaSumOK]: count is the encoded
\* block count.
MetaRegion(gen) == gen.count \o Directory(gen.blks, 6)

Laid(gen, area, meta) ==
  gen.magic \o <<gen.format, gen.code>> \o area \o meta
  \o StoredSum(meta, gen.metaSumOK) \o PutBigEndian(Bits(6 + Len(area)), 8)

Body(gen) == Laid(gen, Area(gen.blks), MetaRegion(gen))

Gen(format, code, blks, metaSumOK) ==
  [magic |-> MagicBytes, format |-> format, code |-> code, blks |-> blks,
   count |-> PutUvarint(Bits(Len(blks))), metaSumOK |-> metaSumOK]

\* mut = << >>, or <<pos, val>>: the byte at pos (from 0) replaced by val.
Mutate(body, mut) ==
  IF mut = << >> THEN body ELSE [body EXCEPT ![mut[1] + 1] = mut[2]]

NoLib == << >>

\* The input: the body of gen with mut applied, the whole of it declared
\* and present.
Given(family, gen, mut, lib, body) ==
  [family |-> family, gen |-> gen, mut |-> mut, stream |-> body,
   dataLength |-> Len(body), lib |-> lib]

Whole(family, gen, mut, lib) == Given(family, gen, mut, lib, Mutate(Body(gen), mut))

RECURSIVE SeqsOf(_, _)
SeqsOf(S, n) ==
  IF n = 0 THEN {<< >>} ELSE {<<x>> \o t : x \in S, t \in SeqsOf(S, n - 1)}

SeqsUpTo(S, n) == UNION {SeqsOf(S, k) : k \in 0..n}

RECURSIVE PlainBlocks(_)
PlainBlocks(ps) ==
  IF Len(ps) = 0 THEN << >> ELSE <<PlainBlock(Head(ps))>> \o PlainBlocks(Tail(ps))

\* Chunks of 0..MaxBlocks blocks of every payload, identity codec.
Layouts ==
  {Whole("layout", Gen(2, 0, PlainBlocks(ps), TRUE), << >>, NoLib) :
     ps \in SeqsUpTo(Payloads, MaxBlocks)}

BlockC == PlainBlock([entries |-> <<EntryC, EntryD, EntryE>>,
                      payload |-> EncodeEntries(<<EntryC, EntryD, EntryE>>),
                      intact |-> TRUE])

\* k blocks, BlockA and BlockC in turn.
Chain(k) == [j \in 1..k |-> IF j % 2 = 1 THEN BlockA ELSE BlockC]

RECURSIVE WithSums(_, _)
WithSums(blks, oks) ==
  IF Len(blks) = 0 THEN << >>
  ELSE <<[Head(blks) EXCEPT !.sumOK = Head(oks)]>> \o WithSums(Tail(blks), Tail(oks))

IdentityCodes == {0, 2}

\* Every combination of good and bad stored checksums, under both identity
\* codecs, with the declared entry count right or wrong.
SumCases ==
  {Whole("sums",
         Gen(2, code, WithSums([Chain(MaxBlocks) EXCEPT ![1].numEntries = declared], oks),
             metaOK),
         << >>, NoLib) :
     code \in IdentityCodes, metaOK \in BOOLEAN, oks \in SeqsOf(BOOLEAN, MaxBlocks),
     declared \in {Bits(2), Bits(7)}}

\* What a decompression library may answer.
LibAnswers ==
  {[err |-> ErrDecompress, out |-> << >>],
   [err |-> Nil, out |-> << >>],
   [err |-> Nil, out |-> EncodeEntries(<<EntryA, EntryB>>)],
   [err |-> Nil, out |-> DropLast(EncodeEntries(<<EntryA, EntryB>>))]}

CompressedCodecs == {<<1, 0>>, <<1, 9>>, <<2, 1>>, <<2, 3>>, <<2, 4>>}

CodecCases ==
  {Whole("codec", Gen(c[1], c[2], Chain(MaxBlocks), TRUE), << >>, lib) :
     c \in CompressedCodecs, lib \in SeqsOf(LibAnswers, MaxBlocks)}

BadMagics ==
  {<<0, 0, 0, 0>>, <<106, 229, 46, 1>>, <<255, 255, 255, 255>>, <<1, 46, 229, 107>>,
   <<129, 46, 229, 106>>, <<1, 46, 106, 229>>}

MagicCases ==
  {Whole("magic", [g EXCEPT !.magic = m], << >>, NoLib) :
     m \in BadMagics,
     g \in {Gen(2, 0, Chain(k), TRUE) : k \in 0..MaxBlocks}
           \cup {Gen(9, 9, << >>, FALSE)}
           \cup {Gen(2, 0, <<PlainBlock(p)>>, TRUE) : p \in DamagedPayloads}}

\* The header's DataLength from 0 to one more than the body, the stream
\* holding the whole body or all but its last byte.
LengthCases ==
  UNION {UNION {{[family |-> "length", gen |-> g, mut |-> << >>, stream |-> st,
                   dataLength |-> n, lib |-> NoLib] :
                    st \in {body, DropLast(body)}, n \in 0..(Len(body) + 1)} :
                body \in {Body(g)}} :
         g \in {Gen(2, 0, <<BlockA>>, TRUE),
                [Gen(2, 0, <<BlockA>>, TRUE) EXCEPT !.magic = <<1, 46, 229, 107>>]}}

\* One byte of a well-formed chunk replaced: every value in the metadata
\* region of the one-block chunk, chosen values (among them the byte with
\* its continuation bit flipped) in the magic number and in the metadata
\* region of the longer chunks, a few values elsewhere.
MetaStart(gen) == 6 + Len(Area(gen.blks))
MetaEnd(gen) == MetaStart(gen) + Len(MetaRegion(gen))

ChosenValues(b) ==
  {0, 1, 2, 6, 64, 127, 128, 129, 255,
   (b + 1) % 256, (b + 255) % 256, (b + 128) % 256, (b + 64) % 256}

MutationValues(gen, body, pos) ==
  IF MetaStart(gen) <= pos /\ pos < MetaEnd(gen)
  THEN IF Len(gen.blks) = 1 THEN 0..255 ELSE ChosenValues(body[pos + 1])
  ELSE IF pos < 4 THEN ChosenValues(body[pos + 1])
  ELSE {0, 1, 127, 128, 255, (body[pos + 1] + 1) % 256}

Mutation(gen, body, pos, v) ==
  [family |-> "mutation", gen |-> gen, mut |-> <<pos, v>>,
   stream |-> [body EXCEPT ![pos + 1] = v], dataLength |-> Len(body), lib |-> NoLib]

MutationBases == {Gen(2, 0, Chain(k), TRUE) : k \in 1..MaxBlocks}

\* Block counts that are not the number of descriptors.
CountCases ==
  {Whole("count", [Gen(2, 0, Chain(k), TRUE) EXCEPT !.count = c], << >>, NoLib) :
     k \in 0..MaxBlocks,
     c \in {Two63, MaxU64, MaxI64, Two31, Overflow, TooLong, Unterminated, << >>,
            PutUvarint(Bits(1)), PutUvarint(Bits(MaxBlocks + 1))}}

\* Descriptors that point outside the buffer or wrap around 2^64.
Places ==
  {<<0..63, Bits(7)>>, <<Not(Bits(3), 64), Bits(4)>>, <<Bits(6), 0..63>>,
   <<Bits(200), Bits(0)>>, <<Bits(6), Bits(200)>>, <<{63}, {63}>>,
   <<Bits(0), Bits(6)>>, <<Bits(6), Bits(0)>>}

PlaceCases ==
  {Whole("place", Gen(2, 0, [Chain(MaxBlocks) EXCEPT ![k].place = pl], TRUE), << >>, NoLib) :
     k \in 1..MaxBlocks, pl \in Places}

Inputs ==
  Layouts \cup SumCases \cup CodecCases \cup MagicCases \cup LengthCases
  \cup CountCases \cup PlaceCases

InitWith(in) == Apply0(Start(in))

Init ==
  \/ \E in \in Inputs : InitWith(in)
  \/ \E g \in MutationBases :
       \E body \in {Body(g)} :
         \E pos \in 0..(Len(body) - 1) :
           \E v \in MutationValues(g, body, pos) \ {body[pos + 1]} :
             InitWith(Mutation(g, body, pos, v))

Spec == Init /\ [][Next]_vars

\* Every (format, code) pair in a chunk of one block; the libraries answer
\* with the block's own bytes.
InitCodec ==
  \E body \in {Body(Gen(2, 0, <<BlockA>>, TRUE))} :
    \E format \in 0..255 :
      \E code \in 0..255 :
        InitWith([family |-> "codec", gen |-> Gen(format, code, <<BlockA>>, TRUE),
                  mut |-> << >>,
                  stream |-> [body EXCEPT ![5] = format, ![6] = code],
                  dataLength |-> Len(body),
                  lib |-> <<[err |-> Nil, out |-> BlockA.payload]>>])

SpecCodec == InitCodec /\ [][Next]_vars

(***************************************************************************)
(* The claims.                                                             *)
(***************************************************************************)
Done == pc = "done"
MagicRead == pc \notin {"read", "magic"} /\ Len(data) >= 4
GoodMagic == Slice(data, 0, 4) = MagicBytes

\* C1: a body read in full whose first four bytes are not 01 2E E5 6A ends
\* parseLokiChunk with the invalid-magic error and no chunk, whatever
\* follows them; no codec is looked up, no directory and no block decoded.
C1_BadMagicIsFatal ==
  (MagicRead /\ ~GoodMagic) =>
    /\ pc = "done"
    /\ ret = [kind |-> "error", chunk |-> << >>, err |-> ErrMagic]
    /\ compression = encUnset
    /\ metadata = << >> /\ metaChecksum = {} /\ computedMetaChecksum = {}
    /\ lokiChunk = << >> /\ blockErrs = << >> /\ block = ZeroBlock /\ ix = 0

C1_Witness ==
  /\ MagicRead /\ ~GoodMagic /\ pc = "done" /\ ret.err = ErrMagic
  /\ Len(data) > 30 /\ data[1] = 1 /\ data[2] = 46 /\ data[3] = 229 /\ data[4] # 106

\* C2: parseLokiChunk ends either with a chunk and no error or with an
\* error and no chunk, for every stream and every DataLength; every access
\* to the body buffer is in range or turned into a returned error.
C2_ChunkOrError ==
  Done =>
    /\ \/ ret.kind = "ok" /\ ret.chunk # << >> /\ ret.err = Nil
       \/ ret.kind = "error" /\ ret.chunk = << >> /\ ret.err # Nil
    /\ Len(input.stream) < input.dataLength => ret.err = ErrReadFull

\* C3: format 1 gives gzip whatever the code; format 2 gives the table
\* entry of codes 0..4 and an error for every other code; every other
\* format gives an error; an error of getCompression ends parseLokiChunk
\* with an error and no chunk.
CodecNames == <<"none", "gzip", "dumb", "lz4", "snappy">>

CompressionRead == pc \notin {"read", "magic", "compression"} /\ Len(data) >= 6 /\ GoodMagic

CompressionFailed(e) ==
  /\ pc = "done" /\ err = e
  /\ ret = [kind |-> "error", chunk |-> << >>, err |-> ErrCompression]
  /\ lokiChunk = << >>

C3_GetCompression ==
  CompressionRead =>
    /\ data[5] = 1 => compression = [code |-> 1, name |-> "gzip"] /\ ret.err # ErrCompression
    /\ (data[5] = 2 /\ data[6] <= 4) =>
          /\ compression = [code |-> data[6], name |-> CodecNames[data[6] + 1]]
          /\ ret.err # ErrCompression
    /\ (data[5] = 2 /\ data[6] > 4) => CompressionFailed(ErrUnknownEncoding)
    /\ data[5] \notin {1, 2} => CompressionFailed(ErrUnknownFormat)

C3_Witness ==
  /\ CompressionRead /\ data[5] = 1 /\ data[6] = 200 /\ compression.name = "gzip"
  /\ pc = "done" /\ ret.kind = "ok"

\* C4: if decompressing or entry-decoding any block's payload fails,
\* parseLokiChunk returns an error and no chunk, whichever block it is.
C4_CorruptBlockAborts ==
  (Done /\ \E k \in 1..Len(blockErrs) : blockErrs[k] # Nil) =>
    ret.kind = "error" /\ ret.chunk = << >>

\* C5: one byte of the metadata region of a chunk that decodes with a
\* matching metadata checksum is replaced by another value; the claim: the
\* checksum is then reported BAD and parseLokiChunk still returns a chunk
\* and no error.  The chunks are the bodies of MutationBases, which decode
\* with matching checksums (BasesDecode).
BasesDecode ==
  \A g \in MutationBases :
    \E base \in {Whole("mutation", g, << >>, NoLib)} :
      \E r \in {parseLokiChunk(base)} :
        /\ r.kind = "ok"
        /\ r.chunk[1].metadataChecksum = r.chunk[1].computedMetadataChecksum

MetasOffsetOf(stream) == Val(BigEndian(Slice(stream, Len(stream) - 8, Len(stream))))

MetaMutation ==
  /\ input.family = "mutation"
  /\ input.mut[1] < Len(input.stream) - 12
  /\ MetasOffsetOf(input.stream) <= input.mut[1]
  /\ input.gen.metaSumOK

TrailerRead == pc \notin {"read", "magic", "compression", "trailer"}

C5_MetadataByteNeverFatal ==
  (Done /\ MetaMutation) =>
    /\ ret.kind = "ok" /\ ret.err = Nil
    /\ ret.chunk[1].metadataChecksum # ret.chunk[1].computedMetadataChecksum

\* C5 as the code has it: the replaced byte always makes the computed
\* metadata checksum differ from the stored one, which is left as it was;
\* a chunk that is still returned carries the two differing checksums; an
\* error that is returned is a decoding error of the block count, of a
\* varint or of a block's entries.
C5_MetadataByteReportedBad ==
  (TrailerRead /\ MetaMutation) =>
    /\ metaChecksum # computedMetaChecksum
    /\ pc = "count" => computedMetaChecksum =
         Checksum(Slice(input.stream, MetasOffsetOf(input.stream), Len(input.stream) - 12))
    /\ metaChecksum =
         BigEndian(Slice(input.stream, Len(input.stream) - 12, Len(input.stream) - 8))
    /\ (Done /\ ret.kind = "ok") =>
         /\ ret.chunk[1].metadataChecksum = metaChecksum
         /\ ret.chunk[1].computedMetadataChecksum = computedMetaChecksum
    /\ (Done /\ ret.kind = "error") => ret.err \in {ErrBlockCount, ErrVarint, ErrLineData}

C5_Witness ==
  /\ Done /\ MetaMutation /\ ret.kind = "ok"
  /\ ret.chunk[1].metadataChecksum # ret.chunk[1].computedMetadataChecksum
  /\ Len(ret.chunk[1].blocks) = Len(input.gen.blks)
  /\ BasesDecode

\* C6: what parseLokiChunk returns (chunk or error, which error, which
\* blocks and entries) is the same whether or not the stored checksums of
\* the metadata and of the blocks equal the computed ones; the chunk records
\* the stored and the computed value of each.
TwinFamilies == {"layout", "sums", "codec", "count", "place"}

Flagged(in, metaOK, blocksOK) ==
  Whole(in.family,
        [in.gen EXCEPT !.metaSumOK = metaOK,
                       !.blks = WithSums(in.gen.blks, [k \in 1..Len(in.gen.blks) |-> blocksOK])],
        in.mut, in.lib)

Twins(in) ==
  {Flagged(in, TRUE, TRUE), Flagged(in, FALSE, FALSE), Flagged(in, FALSE, TRUE),
   Flagged(in, TRUE, FALSE)}

SumsErased(chunk) ==
  [k \in 1..Len(chunk) |->
     [chunk[k] EXCEPT !.metadataChecksum = {},
                      !.blocks = [j \in 1..Len(chunk[k].blocks) |->
                                    [chunk[k].blocks[j] EXCEPT !.storedChecksum = {}]]]]

SameOutcome(r1, r2) ==
  /\ r1.kind = r2.kind
  /\ r1.err = r2.err
  /\ SumsErased(r1.chunk) = SumsErased(r2.chunk)

DirectoryIntact ==
  /\ input.family \in {"layout", "sums", "codec"}
  /\ Len(ret.chunk[1].blocks) = Len(input.gen.blks)

C6_ChecksumsInformational ==
  (Done /\ input.family \in TwinFamilies) =>
    /\ \A tw \in Twins(input) : SameOutcome(ret, parseLokiChunk(tw))
    /\ (ret.kind = "ok" /\ DirectoryIntact) =>
         /\ (ret.chunk[1].metadataChecksum = ret.chunk[1].computedMetadataChecksum)
              <=> input.gen.metaSumOK
         /\ ret.chunk[1].computedMetadataChecksum = Checksum(MetaRegion(input.gen))
         /\ \A k \in 1..Len(input.gen.blks) :
              /\ (ret.chunk[1].blocks[k].storedChecksum
                    = ret.chunk[1].blocks[k].computedChecksum) <=> input.gen.blks[k].sumOK
              /\ ret.chunk[1].blocks[k].computedChecksum
                   = Checksum(input.gen.blks[k].payload)

C6_Witness ==
  /\ Done /\ input.family = "sums" /\ ret.kind = "ok"
  /\ ret.chunk[1].metadataChecksum # ret.chunk[1].computedMetadataChecksum
  /\ Len(ret.chunk[1].blocks) = MaxBlocks
  /\ ret.chunk[1].blocks[1].storedChecksum # ret.chunk[1].blocks[1].computedChecksum
  /\ ret.chunk[1].blocks[MaxBlocks].storedChecksum
       = ret.chunk[1].blocks[MaxBlocks].computedChecksum
  /\ SameOutcome(ret, parseLokiChunk(Flagged(input, TRUE, TRUE)))

\* C7: under an identity codec a payload that is the concatenation of the
\* encodings of N entries decodes without error to exactly those N entries
\* in order, with decompressed length the payload's length; the entry count
\* declared in the metadata has no part in it.
EncodedLists == {[entries |-> es, bytes |-> EncodeEntries(es)] : es \in EntryLists}

C7_EntriesRoundTrip ==
  \A k \in 1..Len(blockErrs) :
    \A e \in EncodedLists :
      (IsIdentity(compression) /\ lokiChunk[1].blocks[k].rawData = e.bytes) =>
        /\ blockErrs[k] = Nil
        /\ lokiChunk[1].blocks[k].entries = e.entries
        /\ lokiChunk[1].blocks[k].uncompressedLength = Len(e.bytes)

C7_Witness ==
  /\ Done /\ ret.kind = "ok" /\ IsIdentity(compression) /\ Len(ret.chunk[1].blocks) = 2
  /\ ret.chunk[1].blocks[1].numEntries = Bits(7)
  /\ ret.chunk[1].blocks[1].entries = <<EntryA, EntryB>>
  /\ ret.chunk[1].blocks[2].entries = <<EntryC, EntryD, EntryE>>
  /\ ret.chunk[1].blocks[2].uncompressedLength = Len(EncodeEntries(<<EntryC, EntryD, EntryE>>))

\* C8: in parseLokiBlock's entry loop, a record whose line length L (any
\* uint64) exceeds the R bytes left after the two varints makes
\* parseLokiBlock return the "not enough line data" error, with no entries.
RECURSIVE OverlongFrom(_)
OverlongAfter(rest, l) ==
  IF l.n <= 0 THEN FALSE
  ELSE IF ~ULeq(l.val, Len(rest) - l.n) THEN TRUE
  ELSE OverlongFrom(Slice(rest, l.n + Val(l.val), Len(rest)))

OverlongFrom(buf) ==
  IF Len(buf) = 0 \/ Varint(buf).n <= 0 THEN FALSE
  ELSE OverlongAfter(Slice(buf, Varint(buf).n, Len(buf)),
                     Uvarint(Slice(buf, Varint(buf).n, Len(buf))))

C8_OverlongLineIsError ==
  (pc = "parse" /\ IsIdentity(compression) /\ OverlongFrom(block.rawData)) =>
    \E r \in {parseLokiBlock(compression, block.rawData, LibAnswer(Cur))} :
      ~r.panic /\ r.err = ErrLineData /\ r.entries = << >>

\* C9: for every block count N that the metadata encodes and every
\* metadata holding N decodable descriptors, the returned chunk holds
\* exactly N blocks, block k with the fields of descriptor k and the
\* payload at its offset and length.
C9_ExactlyNBlocks ==
  (Done /\ ret.kind = "ok") =>
    /\ Bits(Len(ret.chunk[1].blocks)) = blocks
    /\ \A k \in 1..Len(ret.chunk[1].blocks) :
         \E b \in {ret.chunk[1].blocks[k]} :
           /\ IsSmall(b.dataOffset) /\ IsSmall(b.dataLength)
           /\ b.rawData = Slice(data, Val(b.dataOffset), Val(b.dataOffset) + Val(b.dataLength))
           /\ (input.family \in {"layout", "sums", "codec"} /\ k <= Len(input.gen.blks)) =>
                /\ b.numEntries = input.gen.blks[k].numEntries
                /\ b.minT = input.gen.blks[k].minT
                /\ b.maxT = input.gen.blks[k].maxT
                /\ b.rawData = input.gen.blks[k].payload

\* C10: once a descriptor field has failed to decode (or an error is
\* pending), the reads of the following fields consume no byte of the
\* metadata and keep the error; the block is never sliced or decoded, and
\* parseLokiChunk returns that error and no chunk, the chunk built from
\* the earlier blocks being dropped.
FieldPcs == {"numEntries", "minT", "maxT", "dataOffset", "dataLength"}

C10_DescriptorError ==
  [][/\ (pc \in FieldPcs /\ err # Nil) =>
          /\ metadata' = metadata /\ err' = err
          /\ lokiChunk' = lokiChunk /\ block'.rawData = << >>
     /\ (pc \in FieldPcs /\ err = Nil /\ err' # Nil) =>
          /\ err' = ErrVarint /\ pc' # "done" /\ block'.rawData = << >>
     /\ (pc = "checkErr" /\ err # Nil) =>
          /\ pc' = "done"
          /\ ret' = [kind |-> "error", chunk |-> << >>, err |-> err]
          /\ block.rawData = << >> /\ block.entries = << >>
          /\ Len(lokiChunk[1].blocks) = ix /\ blockErrs' = blockErrs]_vars

C10_Witness ==
  /\ Done /\ ret = [kind |-> "error", chunk |-> << >>, err |-> ErrVarint]
  /\ ix = 1 /\ Len(lokiChunk[1].blocks) = 1 /\ blockErrs = <<Nil>>
  /\ block.rawData = << >> /\ block.numEntries # {} /\ block.dataLength = {}
  /\ input.family = "mutation"

====
